---------------------------- MODULE Spec2Model ----------------------------
(***************************************************************************)
(* Shortfinder backend: the Flask routes of backend/main.py and the        *)
(* upstream wrapper YouTubeAPI of backend/youtube_api.py.                  *)
(*                                                                         *)
(* A JSON object (a Python dict) is a function whose DOMAIN is the set of  *)
(* keys that are present; d[k] on an absent key is Python's KeyError and   *)
(* d.get(k, default) is Get.  A JSON array is a sequence.  Python's None   *)
(* is the value None below.  The result of a Python call is a record       *)
(* [exc |-> FALSE, val |-> v] (it returned v) or [exc |-> TRUE, msg |-> m] *)
(* (it raised an exception e with str(e) = m).  Where a dict is expected    *)
(* (Optional[Dict]) None is NoneDict.                                      *)
(***************************************************************************)
EXTENDS Integers, Sequences, FiniteSets, TLC

VARIABLES
    youtube_api,  \* the process-wide YouTubeAPI object (main.py:13)
    pc,           \* pc[r]: "idle" (not yet served), "upstream" (blocked in request.execute()), "done"
    route,        \* route[r]: the handler serving request r
    args,         \* args[r]: request.args, each key mapped to the list of its values
    video_id,     \* video_id[r]: the <video_id> path parameter
    sent,         \* sent[r]: the upstream query request r issued
    reply,        \* reply[r]: what request.execute() gave request r
    response,     \* response[r]: the HTTP response of request r
    calls         \* calls[r]: number of request.execute() calls made for request r

vars == <<youtube_api, pc, route, args, video_id, sent, reply, response, calls>>

-----------------------------------------------------------------------------
(* Bounds *)

\* longest item list the upstream returns in Spec
MaxItems == 2

\* number of requests served concurrently in SpecConc
NumRequests == 2

-----------------------------------------------------------------------------
(* Python values *)

None == "<None>"

NoneDict == [none |-> TRUE]

DefaultMaxResults == 10

ShortsDuration == 60

Returned(v) == [exc |-> FALSE, val |-> v]

Raised(m) == [exc |-> TRUE, msg |-> m]

\* str(KeyError(k)) is the repr of the key
KeyError(k) == Raised("'" \o k \o "'")

\* d.get(k, default)
Get(d, k, default) == IF k \in DOMAIN d THEN d[k] ELSE default

\* truth value of an Optional[str]: None and "" are false
Truthy(s) == s # None /\ s # ""

-----------------------------------------------------------------------------
(* request.args.get(key, default=..., type=int) *)

Digits == <<"0", "1", "2", "3", "4", "5", "6", "7", "8", "9">>

IsDigit(c) == \E i \in 1..10 : Digits[i] = c

DigitVal(c) == (CHOOSE i \in 1..10 : Digits[i] = c) - 1

RECURSIVE DigitsVal(_)
DigitsVal(cs) ==
    IF cs = <<>> THEN 0
    ELSE 10 * DigitsVal(SubSeq(cs, 1, Len(cs) - 1)) + DigitVal(cs[Len(cs)])

AllDigits(cs) == cs # <<>> /\ \A i \in 1..Len(cs) : IsDigit(cs[i])

\* int(value) on the characters of value: an optional sign, then digits;
\* anything else is a ValueError
IntParse(cs) ==
    IF cs # <<>> /\ cs[1] \in {"-", "+"}
    THEN IF AllDigits(Tail(cs))
         THEN Returned(IF cs[1] = "-" THEN 0 - DigitsVal(Tail(cs)) ELSE DigitsVal(Tail(cs)))
         ELSE Raised("invalid literal for int()")
    ELSE IF AllDigits(cs) THEN Returned(DigitsVal(cs))
         ELSE Raised("invalid literal for int()")

\* request.args.get(key): the first value of the key, None if there is none
ArgsGet(a, key, default) == IF a[key] = <<>> THEN default ELSE a[key][1]

\* request.args.get(key, default=d, type=int): a value that does not convert
\* gives the default
ArgsGetInt(a, key, default) ==
    IF a[key] = <<>> THEN default
    ELSE LET v == IntParse(a[key][1]) IN IF v.exc THEN default ELSE v.val

-----------------------------------------------------------------------------
(* YouTubeAPI (youtube_api.py) *)

\* d[k1][k2]...: the value, or the KeyError of the first key that is absent
RECURSIVE Subscript(_, _)
Subscript(d, keys) ==
    IF keys = <<>> THEN Returned(d)
    ELSE IF Head(keys) \in DOMAIN d THEN Subscript(d[Head(keys)], Tail(keys))
         ELSE KeyError(Head(keys))

\* YouTubeAPI(api_key): the object built once at import of main.py
YouTubeAPI(api_key) == [api_key |-> api_key, shorts_duration |-> ShortsDuration]

\* the short_data dict of search_shorts for an item whose videoId is vid
ShortData(vid, item) ==
    IF "snippet" \notin DOMAIN item THEN KeyError("snippet")
    ELSE LET thumb == Subscript(item.snippet, <<"thumbnails", "default", "url">>) IN
         IF thumb.exc THEN thumb
         ELSE Returned(<<[video_id |-> vid,
                          title |-> Get(item.snippet, "title", None),
                          description |-> Get(item.snippet, "description", None),
                          thumbnail |-> thumb.val,
                          channel_title |-> Get(item.snippet, "channelTitle", None),
                          published_at |-> Get(item.snippet, "publishedAt", None)]>>)

\* SearchEntry testing `video_id is not None` instead of `video_id`
SearchEntryNotNone(item) ==
    IF "id" \notin DOMAIN item THEN KeyError("id")
    ELSE LET vid == Get(item.id, "videoId", None) IN
         IF vid = None THEN Returned(<<>>) ELSE ShortData(vid, item)

\* one pass of the loop body of search_shorts: the entries it appends for item
SearchEntry(item) ==
    IF "id" \notin DOMAIN item THEN KeyError("id")
    ELSE LET vid == Get(item.id, "videoId", None) IN
         IF ~Truthy(vid) THEN Returned(<<>>) ELSE ShortData(vid, item)

\* the for loop of search_shorts over the items left, shorts being the list so far
RECURSIVE SearchLoop(_, _)
SearchLoop(items, shorts) ==
    IF items = <<>> THEN Returned(shorts)
    ELSE LET e == SearchEntry(Head(items)) IN
         IF e.exc THEN e ELSE SearchLoop(Tail(items), shorts \o e.val)

\* search_shorts catching the upstream failure and returning no results
search_shorts_swallow(self, query, max_results, rep) ==
    IF rep.status = "error" THEN Returned(<<>>)
    ELSE SearchLoop(Get(rep.response, "items", <<>>), <<>>)

\* YouTubeAPI.search_shorts once request.execute() has given rep: a failure of
\* execute() (an HttpError, printed and re-raised, or any other) propagates
search_shorts(self, query, max_results, rep) ==
    IF rep.status = "error" THEN Raised(rep.msg)
    ELSE SearchLoop(Get(rep.response, "items", <<>>), <<>>)

\* the video_details dict of get_video_details for the first item
VideoDetails(vid, item) ==
    IF "contentDetails" \notin DOMAIN item THEN KeyError("contentDetails")
    ELSE IF "snippet" \notin DOMAIN item THEN KeyError("snippet")
    ELSE LET thumb == Subscript(item.snippet, <<"thumbnails", "high", "url">>) IN
         IF thumb.exc THEN thumb
         ELSE IF "statistics" \notin DOMAIN item THEN KeyError("statistics")
         ELSE Returned([video_id |-> vid,
                        title |-> Get(item.snippet, "title", None),
                        description |-> Get(item.snippet, "description", None),
                        channel_id |-> Get(item.snippet, "channelId", None),
                        channel_title |-> Get(item.snippet, "channelTitle", None),
                        published_at |-> Get(item.snippet, "publishedAt", None),
                        thumbnail |-> thumb.val,
                        duration |-> Get(item.contentDetails, "duration", ""),
                        view_count |-> Get(item.statistics, "viewCount", 0),
                        like_count |-> Get(item.statistics, "likeCount", 0),
                        comment_count |-> Get(item.statistics, "commentCount", 0),
                        tags |-> Get(item.snippet, "tags", <<>>),
                        category_id |-> Get(item.snippet, "categoryId", None)])

\* get_video_details taking response["items"][0] without testing the list
get_video_details_unchecked(self, vid, rep) ==
    IF rep.status = "error" THEN Raised(rep.msg)
    ELSE IF "items" \notin DOMAIN rep.response THEN KeyError("items")
    ELSE IF rep.response.items = <<>> THEN Raised("list index out of range")
    ELSE VideoDetails(vid, rep.response.items[1])

\* YouTubeAPI.get_video_details once request.execute() has given rep;
\* response.get("items") is false for a missing and for an empty list
get_video_details(self, vid, rep) ==
    IF rep.status = "error" THEN Raised(rep.msg)
    ELSE IF Get(rep.response, "items", <<>>) = <<>> THEN Returned(NoneDict)
    ELSE VideoDetails(vid, rep.response.items[1])

\* one pass of the loop body of get_trending_shorts
TrendingEntry(item) ==
    IF "id" \notin DOMAIN item THEN KeyError("id")
    ELSE IF "snippet" \notin DOMAIN item THEN KeyError("snippet")
    ELSE LET thumb == Subscript(item.snippet, <<"thumbnails", "default", "url">>) IN
         IF thumb.exc THEN thumb
         ELSE IF "statistics" \notin DOMAIN item THEN KeyError("statistics")
         ELSE Returned(<<[video_id |-> item.id,
                          title |-> Get(item.snippet, "title", None),
                          description |-> Get(item.snippet, "description", None),
                          thumbnail |-> thumb.val,
                          channel_title |-> Get(item.snippet, "channelTitle", None),
                          published_at |-> Get(item.snippet, "publishedAt", None),
                          view_count |-> Get(item.statistics, "viewCount", 0)]>>)

\* TrendingLoop inserting each entry at the front of the list
RECURSIVE TrendingLoopPrepend(_, _)
TrendingLoopPrepend(items, trending) ==
    IF items = <<>> THEN Returned(trending)
    ELSE LET e == TrendingEntry(Head(items)) IN
         IF e.exc THEN e ELSE TrendingLoopPrepend(Tail(items), e.val \o trending)

\* the for loop of get_trending_shorts
RECURSIVE TrendingLoop(_, _)
TrendingLoop(items, trending) ==
    IF items = <<>> THEN Returned(trending)
    ELSE LET e == TrendingEntry(Head(items)) IN
         IF e.exc THEN e ELSE TrendingLoop(Tail(items), trending \o e.val)

\* YouTubeAPI.get_trending_shorts once request.execute() has given rep
get_trending_shorts(self, region_code, max_results, rep) ==
    IF rep.status = "error" THEN Raised(rep.msg)
    ELSE TrendingLoop(Get(rep.response, "items", <<>>), <<>>)

-----------------------------------------------------------------------------
(* The routes of main.py *)

\* jsonify(body), status
Resp(status, body) == [status |-> status, body |-> body]

NoResponse == [status |-> 0]

NoReply == [status |-> "none"]

NoCall == [method |-> "none"]

NoArgs == [q |-> <<>>, max_results |-> <<>>, region |-> <<>>]

\* NotQuery testing `query is None` instead of `not query`
NotQueryNoneOnly(query) == query = None

\* `not query` (main.py:29)
NotQuery(query) == ~Truthy(query)

\* search_shorts() up to request.execute(): parse, validate, issue the upstream query
SearchStart(r, a) ==
    /\ pc[r] = "idle"
    /\ route' = [route EXCEPT ![r] = "search"]
    /\ args' = [args EXCEPT ![r] = a]
    /\ LET query == ArgsGet(a, "q", None)
           max_results == ArgsGetInt(a, "max_results", DefaultMaxResults)
       IN  IF NotQuery(query)
           THEN /\ response' = [response EXCEPT ![r] =
                        Resp(400, [error |-> "Query parameter 'q' is required"])]
                /\ pc' = [pc EXCEPT ![r] = "done"]
                /\ UNCHANGED <<sent, calls>>
           ELSE /\ sent' = [sent EXCEPT ![r] =
                        [method |-> "search.list", q |-> query, maxResults |-> max_results]]
                /\ calls' = [calls EXCEPT ![r] = @ + 1]
                /\ pc' = [pc EXCEPT ![r] = "upstream"]
                /\ UNCHANGED response
    /\ UNCHANGED <<youtube_api, video_id, reply>>

\* SearchFinish issuing the upstream query again when it failed
SearchFinishRetry(r, replies) ==
    /\ pc[r] = "upstream"
    /\ route[r] = "search"
    /\ \E rep \in replies :
        /\ IF rep.status = "error" /\ calls[r] < 2
           THEN /\ calls' = [calls EXCEPT ![r] = @ + 1]
                /\ UNCHANGED <<pc, reply, response>>
           ELSE /\ reply' = [reply EXCEPT ![r] = rep]
                /\ LET results == search_shorts(youtube_api, sent[r].q, sent[r].maxResults, rep) IN
                   response' = [response EXCEPT ![r] =
                       IF results.exc THEN Resp(500, [error |-> results.msg])
                       ELSE Resp(200, [success |-> TRUE, data |-> results.val])]
                /\ pc' = [pc EXCEPT ![r] = "done"]
                /\ UNCHANGED calls
        /\ UNCHANGED <<youtube_api, route, args, video_id, sent>>

\* SearchFinish with the result list kept on the shared client object
\* (self.shorts) instead of in a local
SearchFinishShared(r, replies) ==
    /\ pc[r] = "upstream"
    /\ route[r] = "search"
    /\ \E rep \in replies :
        /\ reply' = [reply EXCEPT ![r] = rep]
        /\ LET results == search_shorts(youtube_api, sent[r].q, sent[r].maxResults, rep)
               shorts == Get(youtube_api, "shorts", <<>>) \o results.val
           IN  IF results.exc
               THEN /\ response' = [response EXCEPT ![r] = Resp(500, [error |-> results.msg])]
                    /\ UNCHANGED youtube_api
               ELSE /\ response' = [response EXCEPT ![r] =
                            Resp(200, [success |-> TRUE, data |-> shorts])]
                    /\ youtube_api' = [api_key |-> youtube_api.api_key,
                                       shorts_duration |-> youtube_api.shorts_duration,
                                       shorts |-> shorts]
        /\ pc' = [pc EXCEPT ![r] = "done"]
        /\ UNCHANGED <<route, args, video_id, sent, calls>>

\* search_shorts() from the return of request.execute(), with one of replies,
\* to the response
SearchFinish(r, replies) ==
    /\ pc[r] = "upstream"
    /\ route[r] = "search"
    /\ \E rep \in replies :
        /\ reply' = [reply EXCEPT ![r] = rep]
        /\ LET results == search_shorts(youtube_api, sent[r].q, sent[r].maxResults, rep) IN
           response' = [response EXCEPT ![r] =
               IF results.exc THEN Resp(500, [error |-> results.msg])
               ELSE Resp(200, [success |-> TRUE, data |-> results.val])]
        /\ pc' = [pc EXCEPT ![r] = "done"]
        /\ UNCHANGED <<youtube_api, route, args, video_id, sent, calls>>

\* get_short_details(video_id) up to request.execute()
DetailStart(r, vid) ==
    /\ pc[r] = "idle"
    /\ route' = [route EXCEPT ![r] = "detail"]
    /\ video_id' = [video_id EXCEPT ![r] = vid]
    /\ sent' = [sent EXCEPT ![r] = [method |-> "videos.list", id |-> vid]]
    /\ calls' = [calls EXCEPT ![r] = @ + 1]
    /\ pc' = [pc EXCEPT ![r] = "upstream"]
    /\ UNCHANGED <<youtube_api, args, reply, response>>

\* get_short_details(video_id) from the return of request.execute(), with one
\* of replies, to the response
DetailFinish(r, replies) ==
    /\ pc[r] = "upstream"
    /\ route[r] = "detail"
    /\ \E rep \in replies :
        /\ reply' = [reply EXCEPT ![r] = rep]
        /\ LET details == get_video_details(youtube_api, sent[r].id, rep) IN
           response' = [response EXCEPT ![r] =
               IF details.exc THEN Resp(500, [error |-> details.msg])
               ELSE IF details.val # NoneDict
                    THEN Resp(200, [success |-> TRUE, data |-> details.val])
                    ELSE Resp(404, [error |-> "Video not found"])]
        /\ pc' = [pc EXCEPT ![r] = "done"]
        /\ UNCHANGED <<youtube_api, route, args, video_id, sent, calls>>

\* get_trending_shorts() up to request.execute()
TrendingStart(r, a) ==
    /\ pc[r] = "idle"
    /\ route' = [route EXCEPT ![r] = "trending"]
    /\ args' = [args EXCEPT ![r] = a]
    /\ LET region_code == ArgsGet(a, "region", "US")
           max_results == ArgsGetInt(a, "max_results", DefaultMaxResults)
       IN  sent' = [sent EXCEPT ![r] =
               [method |-> "videos.list", regionCode |-> region_code,
                maxResults |-> max_results]]
    /\ calls' = [calls EXCEPT ![r] = @ + 1]
    /\ pc' = [pc EXCEPT ![r] = "upstream"]
    /\ UNCHANGED <<youtube_api, video_id, reply, response>>

\* get_trending_shorts() from the return of request.execute(), with one of
\* replies, to the response
TrendingFinish(r, replies) ==
    /\ pc[r] = "upstream"
    /\ route[r] = "trending"
    /\ \E rep \in replies :
        /\ reply' = [reply EXCEPT ![r] = rep]
        /\ LET results == get_trending_shorts(youtube_api, sent[r].regionCode,
                                              sent[r].maxResults, rep) IN
           response' = [response EXCEPT ![r] =
               IF results.exc THEN Resp(500, [error |-> results.msg])
               ELSE Resp(200, [success |-> TRUE, data |-> results.val])]
        /\ pc' = [pc EXCEPT ![r] = "done"]
        /\ UNCHANGED <<youtube_api, route, args, video_id, sent, calls>>

-----------------------------------------------------------------------------
(* Inputs: query strings, and what the upstream API may answer *)

SeqsUpTo(S, n) == UNION {[1..k -> S] : k \in 0..n}

\* values of ?q=: absent, empty, a term
QValues == {<<>>, <<"">>, <<"cats">>}

\* values of ?max_results=, each the characters of the raw string:
\* absent, "0", "1", "2", "12", "2x"
MaxResultsValues ==
    {<<>>, << <<"0">> >>, << <<"1">> >>, << <<"2">> >>, << <<"1", "2">> >>,
     << <<"2", "x">> >>}

SearchArgs == {[q |-> q, max_results |-> m, region |-> <<>>] : q \in QValues, m \in MaxResultsValues}

TrendingArgs ==
    {[q |-> <<>>, max_results |-> m, region |-> g] :
        m \in {<<>>, << <<"-", "1">> >>}, g \in {<<>>, <<"GB">>}}

VideoIds == {"a1", "unknownid"}

Thumbs == [default |-> [url |-> "u_default"], high |-> [url |-> "u_high"]]

\* a snippet facet with every key
FullSnippet ==
    [title |-> "t", description |-> "d", channelId |-> "ch", channelTitle |-> "ct",
     publishedAt |-> "2024-01-01T00:00:00Z", thumbnails |-> Thumbs,
     tags |-> <<"x">>, categoryId |-> "22"]

\* a snippet facet without its optional strings and tags
SparseSnippet == [channelId |-> "ch", thumbnails |-> Thumbs]

\* snippet facets lacking a thumbnail variant, a variant's url, or the thumbnails
OnlyHighSnippet == [title |-> "t", thumbnails |-> [high |-> [url |-> "u_high"]]]

OnlyDefaultSnippet == [title |-> "t", thumbnails |-> [default |-> [url |-> "u_default"]]]

NoUrlSnippet ==
    [title |-> "t", thumbnails |-> [default |-> [width |-> 120], high |-> [width |-> 480]]]

NoThumbnailsSnippet == [title |-> "t", description |-> "d"]

\* the id object of a search result: a video, a video with an empty id, a channel
SearchIds ==
    {[kind |-> "youtube#video", videoId |-> "a1"],
     [kind |-> "youtube#video", videoId |-> "a2"],
     [kind |-> "youtube#video", videoId |-> ""],
     [kind |-> "youtube#channel", channelId |-> "ch"]}

SearchItems ==
    {[kind |-> "youtube#searchResult", id |-> i, snippet |-> sn] :
        i \in SearchIds,
        sn \in {FullSnippet, SparseSnippet, OnlyHighSnippet, NoUrlSnippet, NoThumbnailsSnippet}}
    \cup {[kind |-> "youtube#searchResult", snippet |-> FullSnippet],
          [kind |-> "youtube#searchResult", id |-> [kind |-> "youtube#video", videoId |-> "a1"]]}

StatisticsValues ==
    {[viewCount |-> 5, likeCount |-> 2, commentCount |-> 1],
     [viewCount |-> 9, likeCount |-> 0, commentCount |-> 3],
     [favoriteCount |-> 0]}

TrendingItems ==
    {[kind |-> "youtube#video", id |-> i, snippet |-> sn, statistics |-> st] :
        i \in {"a1", "a2"},
        sn \in {FullSnippet, SparseSnippet, OnlyHighSnippet},
        st \in StatisticsValues}
    \cup {[kind |-> "youtube#video", id |-> i, snippet |-> FullSnippet] : i \in {"a1", "a2"}}
    \cup {[kind |-> "youtube#video", snippet |-> FullSnippet,
           statistics |-> [viewCount |-> 5, likeCount |-> 2, commentCount |-> 1]],
          [kind |-> "youtube#video", id |-> "a1",
           statistics |-> [viewCount |-> 5, likeCount |-> 2, commentCount |-> 1]]}

DetailItems ==
    {[kind |-> "youtube#video", id |-> "a1", snippet |-> sn, statistics |-> st,
      contentDetails |-> cd] :
        sn \in {FullSnippet, SparseSnippet, OnlyDefaultSnippet, NoThumbnailsSnippet},
        st \in StatisticsValues,
        cd \in {[duration |-> "PT30S"], [dimension |-> "2d"]}}
    \cup {[kind |-> "youtube#video", id |-> "a1", snippet |-> sn,
           contentDetails |-> [duration |-> "PT30S"]] : sn \in {FullSnippet, SparseSnippet}}
    \cup {[kind |-> "youtube#video", id |-> "a1", snippet |-> FullSnippet,
           statistics |-> [viewCount |-> 5, likeCount |-> 2, commentCount |-> 1]],
          [kind |-> "youtube#video", id |-> "a1",
           statistics |-> [viewCount |-> 5, likeCount |-> 2, commentCount |-> 1],
           contentDetails |-> [duration |-> "PT30S"]]}

\* request.execute() raises (an HttpError, or a transport error), or returns a
\* response with no item list or with one of itemLists
Replies(itemLists) ==
    {[status |-> "error", msg |-> m] :
        m \in {"<HttpError 403 quotaExceeded>", "Unable to find the server"}}
    \cup {[status |-> "ok", response |-> [kind |-> "youtube#listResponse"]]}
    \cup {[status |-> "ok", response |-> [kind |-> "youtube#listResponse", items |-> l]] :
            l \in itemLists}

-----------------------------------------------------------------------------
(* Specifications *)

InitN(n) ==
    /\ youtube_api = YouTubeAPI("KEY")
    /\ pc = [r \in 1..n |-> "idle"]
    /\ route = [r \in 1..n |-> "none"]
    /\ args = [r \in 1..n |-> NoArgs]
    /\ video_id = [r \in 1..n |-> ""]
    /\ sent = [r \in 1..n |-> NoCall]
    /\ reply = [r \in 1..n |-> NoReply]
    /\ response = [r \in 1..n |-> NoResponse]
    /\ calls = [r \in 1..n |-> 0]

\* one request, every input and every upstream answer up to MaxItems items
Init == InitN(1)

SearchReplies == Replies(SeqsUpTo(SearchItems, MaxItems))

DetailReplies == Replies(SeqsUpTo(DetailItems, MaxItems))

TrendingReplies == Replies(SeqsUpTo(TrendingItems, MaxItems))

Next ==
    \/ \E r \in DOMAIN pc, a \in SearchArgs : SearchStart(r, a)
    \/ \E r \in DOMAIN pc : SearchFinish(r, SearchReplies)
    \/ \E r \in DOMAIN pc, vid \in VideoIds : DetailStart(r, vid)
    \/ \E r \in DOMAIN pc : DetailFinish(r, DetailReplies)
    \/ \E r \in DOMAIN pc, a \in TrendingArgs : TrendingStart(r, a)
    \/ \E r \in DOMAIN pc : TrendingFinish(r, TrendingReplies)

Spec == Init /\ [][Next]_vars

\* NumRequests requests served concurrently, their steps interleaved
InitConc == InitN(NumRequests)

ConcSearchItem == [kind |-> "youtube#searchResult",
                   id |-> [kind |-> "youtube#video", videoId |-> "a1"],
                   snippet |-> FullSnippet]

ConcVideoItem == [kind |-> "youtube#video", id |-> "a1", snippet |-> FullSnippet,
                  statistics |-> [viewCount |-> 5, likeCount |-> 2, commentCount |-> 1],
                  contentDetails |-> [duration |-> "PT30S"]]

ConcSearchArgs == {x \in SearchArgs : x.max_results = <<>>}

ConcTrendingArgs == {x \in TrendingArgs : x.max_results = <<>>}

ConcSearchReplies == Replies({<<>>, <<ConcSearchItem>>})

ConcVideoReplies == Replies({<<>>, <<ConcVideoItem>>})

NextConc ==
    \/ \E r \in DOMAIN pc, a \in ConcSearchArgs : SearchStart(r, a)
    \/ \E r \in DOMAIN pc : SearchFinish(r, ConcSearchReplies)
    \/ \E r \in DOMAIN pc : DetailStart(r, "a1")
    \/ \E r \in DOMAIN pc : DetailFinish(r, ConcVideoReplies)
    \/ \E r \in DOMAIN pc, a \in ConcTrendingArgs : TrendingStart(r, a)
    \/ \E r \in DOMAIN pc : TrendingFinish(r, ConcVideoReplies)

SpecConc == InitConc /\ [][NextConc]_vars

-----------------------------------------------------------------------------
(* Properties *)

Requests == DOMAIN pc

Done(r) == pc[r] = "done"

\* the item list of the upstream response request r got ([] when it has none)
ItemsOf(r) == Get(reply[r].response, "items", <<>>)

GotResponse(r) == Done(r) /\ reply[r].status = "ok"

QAbsentOrEmpty(r) == args[r].q = <<>> \/ args[r].q[1] = ""

\* C1: a search request whose q is absent or empty is answered 400 with the
\* error "Query parameter 'q' is required", whatever max_results is, and is
\* never sent upstream.
C1_MissingQueryIs400 ==
    \A r \in Requests :
        (route[r] = "search" /\ QAbsentOrEmpty(r)) =>
            /\ Done(r)
            /\ response[r] = Resp(400, [error |-> "Query parameter 'q' is required"])

\* C1 witness: q is the empty string and max_results is the non-integer "2x"
C1_Witness ==
    \E r \in Requests :
        /\ Done(r) /\ route[r] = "search"
        /\ args[r].q = <<"">> /\ args[r].max_results = << <<"2", "x">> >>
        /\ response[r].status = 400

\* C2: a detail lookup whose upstream response has an empty or missing item
\* list is answered 404 {"error": "Video not found"}.
C2_NoItemsIs404 ==
    \A r \in Requests :
        (GotResponse(r) /\ route[r] = "detail" /\ ItemsOf(r) = <<>>) =>
            response[r] = Resp(404, [error |-> "Video not found"])

\* C2 witness: the upstream answered with a response that has no items key
C2_Witness ==
    \E r \in Requests :
        /\ GotResponse(r) /\ route[r] = "detail"
        /\ "items" \notin DOMAIN reply[r].response
        /\ response[r].status = 404

\* what each route needs of an item besides the optional keys C3 lists
HasRequired(rt, item) ==
    /\ "snippet" \in DOMAIN item
    /\ "thumbnails" \in DOMAIN item.snippet
    /\ rt \in {"search", "trending"} => "id" \in DOMAIN item
    /\ rt \in {"detail", "trending"} => "statistics" \in DOMAIN item
    /\ rt = "detail" => "contentDetails" \in DOMAIN item

\* C3: when the items of the upstream response lack only optional keys (a
\* snippet string, a thumbnail variant or its url, tags, a statistics key),
\* the request is not answered 500.
C3_MissingOptionalNever500 ==
    \A r \in Requests :
        (GotResponse(r) /\ \A i \in 1..Len(ItemsOf(r)) : HasRequired(route[r], ItemsOf(r)[i]))
            => response[r].status # 500

\* an item that is complete except that its statistics facet is absent
LacksOnlyStatistics(rt, item) ==
    /\ "id" \in DOMAIN item
    /\ "snippet" \in DOMAIN item
    /\ item.snippet = FullSnippet
    /\ rt = "detail" => "contentDetails" \in DOMAIN item
    /\ "statistics" \notin DOMAIN item

\* the count fields of the records of a 200 response
CountsOf(r) ==
    IF route[r] = "detail"
    THEN {response[r].body.data.view_count, response[r].body.data.like_count,
          response[r].body.data.comment_count}
    ELSE {response[r].body.data[i].view_count : i \in 1..Len(response[r].body.data)}

\* C4: the counts of every returned ShortDetail and TrendingEntry are
\* non-negative integers, and an item without a statistics facet gives a 200
\* response whose counts are 0.
C4_CountsDefaultToZero ==
    \A r \in Requests :
        (GotResponse(r) /\ route[r] \in {"detail", "trending"}) =>
            /\ response[r].status = 200 => CountsOf(r) \subseteq Nat
            /\ (/\ ItemsOf(r) # <<>>
                /\ \A i \in 1..Len(ItemsOf(r)) : LacksOnlyStatistics(route[r], ItemsOf(r)[i]))
               => (response[r].status = 200 /\ CountsOf(r) = {0})

\* C5: a successful search returns at most max_results entries, each with a
\* non-null video_id.
C5_AtMostMaxResults ==
    \A r \in Requests :
        (Done(r) /\ route[r] = "search" /\ response[r].status = 200) =>
            /\ Len(response[r].body.data) <= sent[r].maxResults
            /\ \A i \in 1..Len(response[r].body.data) :
                   response[r].body.data[i].video_id # None

\* C6: a request whose upstream call failed is answered 500 with the failure's
\* text as error, after that one call.
C6_UpstreamFailureIs500 ==
    \A r \in Requests :
        (Done(r) /\ reply[r].status = "error") =>
            /\ response[r] = Resp(500, [error |-> reply[r].msg])
            /\ calls[r] = 1

\* C6 witness: a search with a non-empty q whose upstream call failed
C6_Witness ==
    \E r \in Requests :
        /\ Done(r) /\ route[r] = "search" /\ ~QAbsentOrEmpty(r)
        /\ reply[r].status = "error"
        /\ response[r].status = 500

\* C7: a successful trending response has one entry per upstream item, entry i
\* carrying the id of item i.
C7_TrendingKeepsOrder ==
    \A r \in Requests :
        (Done(r) /\ route[r] = "trending" /\ response[r].status = 200) =>
            /\ Len(response[r].body.data) = Len(ItemsOf(r))
            /\ \A i \in 1..Len(ItemsOf(r)) :
                   response[r].body.data[i].video_id = ItemsOf(r)[i].id

\* C7 witness: two items, the less viewed first
C7_Witness ==
    \E r \in Requests :
        /\ Done(r) /\ route[r] = "trending" /\ response[r].status = 200
        /\ Len(ItemsOf(r)) = 2
        /\ ItemsOf(r)[1].id = "a2" /\ ItemsOf(r)[2].id = "a1"
        /\ response[r].body.data[1].view_count < response[r].body.data[2].view_count

\* an item with a present, non-empty videoId
HasVideoId(item) ==
    /\ "id" \in DOMAIN item
    /\ "videoId" \in DOMAIN item.id
    /\ item.id.videoId # ""

\* C8: the video_ids of a successful search are those of the upstream items
\* that have a videoId, in upstream order.
C8_SearchKeepsResolvable ==
    \A r \in Requests :
        (Done(r) /\ route[r] = "search" /\ response[r].status = 200) =>
            LET kept == SelectSeq(ItemsOf(r), HasVideoId)
                data == response[r].body.data
            IN  /\ Len(data) = Len(kept)
                /\ \A i \in 1..Len(kept) : data[i].video_id = kept[i].id.videoId

\* C8 witness: an item without videoId is skipped and the one after it is kept
C8_Witness ==
    \E r \in Requests :
        /\ Done(r) /\ route[r] = "search" /\ response[r].status = 200
        /\ Len(ItemsOf(r)) = 2
        /\ ~HasVideoId(ItemsOf(r)[1]) /\ HasVideoId(ItemsOf(r)[2])
        /\ Len(response[r].body.data) = 1

\* C9 as claimed: every answered request has issued exactly one upstream call.
C9_AlwaysOneCall ==
    \A r \in Requests : Done(r) => calls[r] = 1

\* C9 as amended: no request issues more than one upstream call; an answered
\* request has issued exactly one, except a search rejected with 400, which
\* has issued none.
C9_OneCallUnlessRejected ==
    \A r \in Requests :
        /\ calls[r] <= 1
        /\ pc[r] = "upstream" => calls[r] = 1
        /\ Done(r) => calls[r] = (IF response[r].status = 400 THEN 0 ELSE 1)

\* C9 witness: a request answered 500 after its one failed call
C9_Witness ==
    \E r \in Requests :
        Done(r) /\ reply[r].status = "error" /\ response[r].status = 500 /\ calls[r] = 1

\* C10: under every interleaving the shared client object stays as built, and
\* two answered requests with the same route, parameters and upstream reply
\* have the same response.
C10_NoInterference ==
    /\ youtube_api = YouTubeAPI("KEY")
    /\ \A r1, r2 \in Requests :
        (/\ Done(r1) /\ Done(r2)
         /\ route[r1] = route[r2] /\ args[r1] = args[r2] /\ video_id[r1] = video_id[r2]
         /\ reply[r1] = reply[r2])
            => response[r1] = response[r2]

\* C10 witness: two searches with the same inputs, both answered 200 with data
C10_Witness ==
    \E r1, r2 \in Requests :
        /\ r1 # r2 /\ Done(r1) /\ Done(r2)
        /\ route[r1] = "search" /\ route[r2] = "search"
        /\ args[r1] = args[r2] /\ reply[r1] = reply[r2]
        /\ response[r1].status = 200 /\ Len(response[r1].body.data) = 1

=============================================================================
